---- MODULE Spec2Model ----
(***************************************************************************)
(* Model of ConcurrentMemoryPool_CentralCache/Common.hpp.                  *)
(*                                                                         *)
(* SizeClass is a set of pure static functions.  They are modelled as      *)
(* operators that compute what the C++ expressions compute (with the C++   *)
(* operator precedence), and a caller that invokes them on request sizes   *)
(* drawn from Sizes.  Two requests are classified side by side, so that    *)
(* properties relating two request sizes are state predicates.             *)
(*                                                                         *)
(* assert() is modelled as compiled in (the header never defines NDEBUG):  *)
(* a failed assertion aborts the process, outcome Fatal.                   *)
(*                                                                         *)
(* FreeList and SpanList are modelled on a memory of addresses: the first  *)
(* word of every object (NextObj) and the fields _next and _prev of every  *)
(* Span.  Their methods are actions; FreeListSpec and SpanListSpec have a  *)
(* single caller that keeps to the contract, the Misuse specifications add *)
(* one call outside of it, and SpanLockSpec runs Insert and Erase write by *)
(* write in two threads that lock the list's _mutex.                       *)
(***************************************************************************)
EXTENDS Integers, Naturals, Sequences, FiniteSets, TLC

(***************************************************************************)
(* Program constants                                                       *)
(***************************************************************************)
MAX_BYTES == 256 * 1024
NFREELIST == 208

(***************************************************************************)
(* Bounds of the model                                                     *)
(***************************************************************************)
\* size_t is 64 bits wide.  Every value that reaches the bit operations is
\* below 2^19 (bytes <= 262144, alignNum <= 8192), so the bits of a size_t
\* above WordBits are zero in every operand but the mask ~(alignNum - 1),
\* where they are ANDed with zeros.  Words are modelled WordBits wide.
WordBits == 20
\* request sizes 0 .. SmallMax are all tried
SmallMax == 20
\* request sizes within Window of every tier limit are tried
Window == 2

Pow2(n) == 2 ^ n
WordMod == Pow2(WordBits)

(***************************************************************************)
(* Bit operations on words                                                 *)
(***************************************************************************)
RECURSIVE BitAndN(_, _, _)
BitAndN(x, y, n) ==
    IF n = 0 THEN 0
    ELSE (x % 2) * (y % 2) + 2 * BitAndN(x \div 2, y \div 2, n - 1)

\* x & y
BitAnd(x, y) == BitAndN(x, y, WordBits)
\* ~x
BitNot(x) == (WordMod - 1) - x
\* x << n and x >> n
Shl(x, n) == (x * Pow2(n)) % WordMod
Shr(x, n) == x \div Pow2(n)

(***************************************************************************)
(* Outcomes of a call                                                      *)
(***************************************************************************)
Ret(v) == [kind |-> "ret", val |-> v]
\* assert(...) failed: the process aborts, nothing is returned
Fatal == [kind |-> "fatal", val |-> 0]
NoCall == [fn |-> "none", arg |-> 0, out |-> Ret(0)]

(***************************************************************************)
(* SizeClass                                                               *)
(***************************************************************************)
\* return (bytes + alignNum - 1) & ~(alignNum - 1);
RoundUpNoMinus(bytes, alignNum) == BitAnd(bytes + alignNum, BitNot(alignNum - 1))
_RoundUp(bytes, alignNum) == BitAnd(bytes + alignNum - 1, BitNot(alignNum - 1))

RoundUpShortCeiling(size) ==
    IF size <= 128 THEN Ret(_RoundUp(size, 8))
    ELSE IF size <= 1024 THEN Ret(_RoundUp(size, 16))
    ELSE IF size <= 8 * 1024 THEN Ret(_RoundUp(size, 128))
    ELSE IF size <= 64 * 1024 THEN Ret(_RoundUp(size, 1024))
    ELSE IF size <= 256 * 1000 THEN Ret(_RoundUp(size, 8 * 1024))
    ELSE Fatal
RoundUp(size) ==
    IF size <= 128 THEN Ret(_RoundUp(size, 8))
    ELSE IF size <= 1024 THEN Ret(_RoundUp(size, 16))
    ELSE IF size <= 8 * 1024 THEN Ret(_RoundUp(size, 128))
    ELSE IF size <= 64 * 1024 THEN Ret(_RoundUp(size, 1024))
    ELSE IF size <= 256 * 1024 THEN Ret(_RoundUp(size, 8 * 1024))
    ELSE Fatal

\* return (bytes + (1 << align_shift) - 1) >> align_shift - 1;
\* In C++ the binary - binds tighter than >>: the shift amount is
\* align_shift - 1 and nothing is subtracted from the shifted value.
_Index(bytes, align_shift) ==
    Shr(bytes + Shl(1, align_shift) - 1, align_shift - 1)

\* static int group_array[4] = {16, 56, 56, 56};
group_array == <<16, 56, 56, 56>>

IndexOpenFirstTier(bytes) ==
    IF bytes < 128 THEN Ret(_Index(bytes, 3))
    ELSE IF bytes <= 1024 THEN Ret(_Index(bytes - 128, 4) + group_array[1])
    ELSE IF bytes <= 8 * 1024
        THEN Ret(_Index(bytes - 1024, 7) + group_array[1] + group_array[2])
    ELSE IF bytes <= 64 * 1024
        THEN Ret(_Index(bytes - 8 * 1024, 10) + group_array[1] + group_array[2]
                 + group_array[3])
    ELSE IF bytes <= 256 * 1024
        THEN Ret(_Index(bytes - 64 * 1024, 13) + group_array[1] + group_array[2]
                 + group_array[3] + group_array[4])
    ELSE Fatal
IndexNoCeiling(bytes) ==
    IF bytes <= 128 THEN Ret(_Index(bytes, 3))
    ELSE IF bytes <= 1024 THEN Ret(_Index(bytes - 128, 4) + group_array[1])
    ELSE IF bytes <= 8 * 1024
        THEN Ret(_Index(bytes - 1024, 7) + group_array[1] + group_array[2])
    ELSE IF bytes <= 64 * 1024
        THEN Ret(_Index(bytes - 8 * 1024, 10) + group_array[1] + group_array[2]
                 + group_array[3])
    ELSE Ret(_Index(bytes - 64 * 1024, 13) + group_array[1] + group_array[2]
             + group_array[3] + group_array[4])
Index(bytes) ==
    IF bytes <= 128 THEN Ret(_Index(bytes, 3))
    ELSE IF bytes <= 1024 THEN Ret(_Index(bytes - 128, 4) + group_array[1])
    ELSE IF bytes <= 8 * 1024
        THEN Ret(_Index(bytes - 1024, 7) + group_array[1] + group_array[2])
    ELSE IF bytes <= 64 * 1024
        THEN Ret(_Index(bytes - 8 * 1024, 10) + group_array[1] + group_array[2]
                 + group_array[3])
    ELSE IF bytes <= 256 * 1024
        THEN Ret(_Index(bytes - 64 * 1024, 13) + group_array[1] + group_array[2]
                 + group_array[3] + group_array[4])
    ELSE Fatal

\* assert(size > 0); int num = MAX_BYTES / size;
\* if (num < 2) num = 2; if (num > 512) num = 512; return num;
NumMoveSizeNoFloor(size) ==
    IF ~(size > 0) THEN Fatal
    ELSE LET num0 == MAX_BYTES \div size
             num1 == IF num0 > 512 THEN 512 ELSE num0
         IN  Ret(num1)
NumMoveSize(size) ==
    IF ~(size > 0) THEN Fatal
    ELSE LET num0 == MAX_BYTES \div size
             num1 == IF num0 < 2 THEN 2 ELSE num0
             num2 == IF num1 > 512 THEN 512 ELSE num1
         IN  Ret(num2)

(***************************************************************************)
(* The caller: request sizes and calls                                     *)
(***************************************************************************)
\* the limits the if-chains of RoundUp and Index compare against
TierLimits == {128, 1024, 8 * 1024, 64 * 1024, 256 * 1024}
\* further request sizes: the documented examples (7 and 123 in the code's
\* comments, 129, 512, 260000 and 300000), aligned sizes of two tiers (72,
\* 144) and sizes where MAX_BYTES / size crosses 2 (131072, 131073)
Probes == {7, 72, 123, 129, 144, 512, 513, 131072, 131073, 260000, 300000}
Near(b) == {s \in (b - Window)..(b + Window) : s >= 0}
Sizes == (0..SmallMax) \cup Probes \cup UNION {Near(b) : b \in TierLimits}

\* two requests are outstanding at a time (e.g. one per thread cache); each
\* is classified by its own calls
Slots == {1, 2}

VARIABLES size, call
scVars == <<size, call>>

Call(fn, arg, out) == [fn |-> fn, arg |-> arg, out |-> out]

(***************************************************************************)
(* FreeList                                                                *)
(*                                                                         *)
(* Objects are addresses 1..MaxObjs, NULL is nullptr.  mem[obj] is the     *)
(* first machine word of obj, the word NextObj(obj) refers to.  The word   *)
(* of an object nobody has written yet is Indeterminate.                   *)
(***************************************************************************)
\* number of objects a thread cache hands to its FreeList
MaxObjs == 3
\* number of objects pushed in one run
MaxOps == 5

NULL == 0
Indeterminate == -1
Objs == 1..MaxObjs

\* freeList: the FreeList object, fields _head and _maxSize
\* mem:      first word of every object
\* stack:    the objects expected in the list, most recently pushed first
\* nPush, nPop: number of objects pushed and popped so far
\* flOut:    the last FreeList call and its outcome
\* halted:   the process was aborted
VARIABLES freeList, mem, stack, nPush, nPop, flOut, halted
flVars == <<freeList, mem, stack, nPush, nPop, flOut>>

\* the process died on an invalid memory access
Crash == [kind |-> "crash", val |-> 0]
FlCall(op, arg, top, out) == [op |-> op, arg |-> arg, top |-> top, out |-> out]

\* static void *&NextObj(void *obj) { return *((void **)obj); }
NextObj(m, obj) == m[obj]

\* bool Empty() { return _head == nullptr; }
Empty == freeList._head = NULL

\* the objects reached from p through NextObj, at most n of them; a pointer
\* that is no object ends the walk and is kept as its last element
RECURSIVE Chain(_, _, _)
Chain(p, m, n) ==
    IF p = NULL THEN <<>>
    ELSE IF n = 0 \/ p \notin Objs THEN <<p>>
    ELSE <<p>> \o Chain(NextObj(m, p), m, n - 1)

ListIn(fl, m) == Chain(fl._head, m, MaxObjs + 1)
ListOf == ListIn(freeList, mem)

Range(seq) == {seq[i] : i \in 1..Len(seq)}
\* objects the caller holds: not linked into the list
FreeObjs == Objs \ Range(stack)

\* _head = nullptr, _maxSize = 1
FreeListInit ==
    /\ freeList = [_head |-> NULL, _maxSize |-> 1]
    /\ mem = [o \in Objs |-> Indeterminate]
    /\ stack = <<>>
    /\ nPush = 0
    /\ nPop = 0
    /\ flOut = FlCall("none", <<>>, NULL, Ret(NULL))

\* void Push(void *obj) { NextObj(obj) = _head; _head = obj; }
PushNoLink(obj) ==
    /\ ~halted
    /\ nPush < MaxOps
    /\ obj \in FreeObjs
    /\ mem' = mem
    /\ freeList' = [freeList EXCEPT !._head = obj]
    /\ stack' = <<obj>> \o stack
    /\ nPush' = nPush + 1
    /\ flOut' = FlCall("Push", <<obj>>, NULL, Ret(NULL))
    /\ UNCHANGED <<nPop, halted>>
Push(obj) ==
    /\ ~halted
    /\ nPush < MaxOps
    /\ obj \in FreeObjs
    /\ mem' = [mem EXCEPT ![obj] = freeList._head]
    /\ freeList' = [freeList EXCEPT !._head = obj]
    /\ stack' = <<obj>> \o stack
    /\ nPush' = nPush + 1
    /\ flOut' = FlCall("Push", <<obj>>, NULL, Ret(NULL))
    /\ UNCHANGED <<nPop, halted>>

\* chains the caller can assemble: distinct objects it holds
Chains ==
    {c \in UNION {[1..n -> FreeObjs] : n \in 1..MaxObjs} :
        \A i, j \in 1..Len(c) : i # j => c[i] # c[j]}
\* the caller's linking of c[1] -> c[2] -> ... -> c[Len(c)]; the word of the
\* last object is left as it was
Linked(m, c) ==
    [o \in Objs |->
        IF \E i \in 1..(Len(c) - 1) : c[i] = o
        THEN c[(CHOOSE i \in 1..(Len(c) - 1) : c[i] = o) + 1]
        ELSE m[o]]

\* void PushRange(void *start, void *end) { NextObj(end) = _head; _head = start; }
\* called with start = c[1] and end = c[Len(c)] of a chain the caller linked
PushRangeLinkStart(c) ==
    /\ ~halted
    /\ c \in Chains
    /\ nPush + Len(c) <= MaxOps
    /\ mem' = [Linked(mem, c) EXCEPT ![c[1]] = freeList._head]
    /\ freeList' = [freeList EXCEPT !._head = c[1]]
    /\ stack' = c \o stack
    /\ nPush' = nPush + Len(c)
    /\ flOut' = FlCall("PushRange", c, NULL, Ret(NULL))
    /\ UNCHANGED <<nPop, halted>>
PushRange(c) ==
    /\ ~halted
    /\ c \in Chains
    /\ nPush + Len(c) <= MaxOps
    /\ mem' = [Linked(mem, c) EXCEPT ![c[Len(c)]] = freeList._head]
    /\ freeList' = [freeList EXCEPT !._head = c[1]]
    /\ stack' = c \o stack
    /\ nPush' = nPush + Len(c)
    /\ flOut' = FlCall("PushRange", c, NULL, Ret(NULL))
    /\ UNCHANGED <<nPop, halted>>

\* void *Pop() { void *obj = _head; _head = NextObj(_head); return obj; }
\* on a list whose _head is an object
Pop ==
    /\ ~halted
    /\ freeList._head \in Objs
    /\ nPop < MaxOps
    /\ freeList' = [freeList EXCEPT !._head = NextObj(mem, freeList._head)]
    /\ stack' = IF stack = <<>> THEN stack ELSE Tail(stack)
    /\ nPop' = nPop + 1
    /\ flOut' = FlCall("Pop", <<>>, IF stack = <<>> THEN NULL ELSE Head(stack),
                       Ret(freeList._head))
    /\ UNCHANGED <<mem, nPush, halted>>

\* Pop() on a list whose _head is nullptr (Empty() is true) or a word such a
\* Pop left there: NextObj(_head) reads through a pointer to no object, which
\* is undefined behaviour.  Pop holds no assert.  Either the access faults
\* and the process dies, or the read yields some word w that becomes _head
\* and the old _head is returned.
PopEmpty ==
    /\ ~halted
    /\ freeList._head \notin Objs
    /\ nPop < MaxOps
    /\ \/ /\ halted' = TRUE
          /\ flOut' = FlCall("Pop", <<>>, NULL, Crash)
          /\ UNCHANGED freeList
       \/ \E w \in Objs \cup {NULL, Indeterminate} :
             /\ freeList' = [freeList EXCEPT !._head = w]
             /\ flOut' = FlCall("Pop", <<>>, NULL, Ret(freeList._head))
             /\ UNCHANGED halted
    /\ nPop' = nPop + 1
    /\ UNCHANGED <<mem, stack, nPush>>

(***************************************************************************)
(* Span and SpanList                                                       *)
(*                                                                         *)
(* Nodes are addresses: the spans 1..MaxSpans and, for every SpanList, the *)
(* sentinel its constructor allocates.  span[n] holds the fields _next and *)
(* _prev of node n; the other fields of Span are not touched by SpanList.  *)
(***************************************************************************)
MaxSpans == 3

Spans == 1..MaxSpans
\* two SpanLists (buckets), so that a span can move from one to the other
Lists == {1, 2}
\* Span *_head of every SpanList: _head = new Span
_head == [l \in Lists |-> MaxSpans + l]
Nodes == Spans \cup {_head[l] : l \in Lists}

\* span:   fields _next, _prev of every node
\* live:   per list, the spans inserted and not erased since
\* spOut:  the last SpanList call and its outcome; rep is 2 when the call
\*         before it had the same arguments; moved tells that newspan came
\*         with a link to the sentinel of another list
VARIABLES span, live, spOut
spVars == <<span, live, spOut>>

SpCall(op, l, cur, newspan, out) ==
    [op |-> op, list |-> l, cur |-> cur, newspan |-> newspan, out |-> out,
     rep |-> IF /\ spOut.op = op /\ spOut.list = l
                /\ spOut.cur = cur /\ spOut.newspan = newspan
             THEN 2 ELSE 1,
     moved |-> /\ op = "Insert"
               /\ \E k \in Lists \ {l} : span[newspan]._prev = _head[k]]

\* Span: _next = nullptr, _prev = nullptr;
\* SpanList(): _head->_next = _head; _head->_prev = _head;
SpanListInit ==
    /\ span = [n \in Nodes |->
                 IF n \in Spans THEN [_next |-> NULL, _prev |-> NULL]
                 ELSE [_next |-> n, _prev |-> n]]
    /\ live = [l \in Lists |-> {}]
    /\ spOut = [op |-> "none", list |-> 1, cur |-> NULL, newspan |-> NULL,
                out |-> Ret(NULL), rep |-> 1, moved |-> FALSE]

\* Span *Begin() { return _head->_next; }
Begin(l) == span[_head[l]]._next
\* Span *End() { return _head; }
End(l) == _head[l]
\* bool Empty() { return _head->_next == _head; }
SpanListEmpty(l) == span[_head[l]]._next = _head[l]

\* the nodes met from p through field f (cur = cur->_next, or cur->_prev)
\* until End(l), at most n of them; a pointer that is no node ends the walk
\* and is kept as its last element
RECURSIVE Walk(_, _, _, _, _)
Walk(sp, l, f, p, n) ==
    IF p = _head[l] THEN <<>>
    ELSE IF n = 0 \/ p \notin Nodes THEN <<p>>
    ELSE <<p>> \o Walk(sp, l, f, IF f = "_next" THEN sp[p]._next ELSE sp[p]._prev,
                       n - 1)
\* for (cur = Begin(); cur != End(); cur = cur->_next)
ForwardIn(sp, l) == Walk(sp, l, "_next", sp[_head[l]]._next, MaxSpans + 1)
BackwardIn(sp, l) == Walk(sp, l, "_prev", sp[_head[l]]._prev, MaxSpans + 1)
Forward(l) == ForwardIn(span, l)
Backward(l) == BackwardIn(span, l)

\* the writes of Insert, in program order:
\*   Span *prev = cur->_prev;
\*   prev->_next = newspan;  newspan->_prev = prev;
\*   newspan->_next = cur;   cur->_prev = newspan;
InsertW1(sp, prev, newspan) == [sp EXCEPT ![prev]._next = newspan]
InsertW2(sp, prev, newspan) == [sp EXCEPT ![newspan]._prev = prev]
InsertW3(sp, cur, newspan) == [sp EXCEPT ![newspan]._next = cur]
InsertW4(sp, cur, newspan) == [sp EXCEPT ![cur]._prev = newspan]

InsertLinksNoForward(sp, cur, newspan) ==
    LET prev == sp[cur]._prev
    IN  InsertW4(InsertW3(InsertW2(sp, prev, newspan), cur, newspan),
                 cur, newspan)
InsertLinksNoBack(sp, cur, newspan) ==
    LET prev == sp[cur]._prev
    IN  InsertW3(InsertW2(InsertW1(sp, prev, newspan), prev, newspan),
                 cur, newspan)
InsertLinks(sp, cur, newspan) ==
    LET prev == sp[cur]._prev
    IN  InsertW4(InsertW3(InsertW2(InsertW1(sp, prev, newspan), prev, newspan),
                          cur, newspan),
                 cur, newspan)

\* the writes of Erase, in program order:
\*   Span *prev = cur->_prev;  Span *next = cur->_next;
\*   prev->_next = next;       next->_prev = prev;
EraseW1(sp, prev, next) == [sp EXCEPT ![prev]._next = next]
EraseW2(sp, prev, next) == [sp EXCEPT ![next]._prev = prev]

EraseLinksNoBack(sp, cur) ==
    LET prev == sp[cur]._prev
        next == sp[cur]._next
    IN  EraseW1(sp, prev, next)
EraseLinksNoForward(sp, cur) ==
    LET prev == sp[cur]._prev
        next == sp[cur]._next
    IN  EraseW2(sp, prev, next)
EraseLinksReset(sp, cur) ==
    LET prev == sp[cur]._prev
        next == sp[cur]._next
    IN  [EraseW2(EraseW1(sp, prev, next), prev, next)
            EXCEPT ![cur] = [_next |-> NULL, _prev |-> NULL]]
EraseLinks(sp, cur) ==
    LET prev == sp[cur]._prev
        next == sp[cur]._next
    IN  EraseW2(EraseW1(sp, prev, next), prev, next)

\* spans linked into no list
Unlinked == Spans \ UNION {live[l] : l \in Lists}

\* void Insert(Span *cur, Span *newspan) on list l.  assert(cur) and
\* assert(newspan) hold for every node.  The caller passes a node of l (a
\* live span or End()) and a span that is linked nowhere.
Insert(l, cur, newspan) ==
    /\ ~halted
    /\ cur \in live[l] \cup {End(l)}
    /\ newspan \in Unlinked
    /\ span' = InsertLinks(span, cur, newspan)
    /\ live' = [live EXCEPT ![l] = @ \cup {newspan}]
    /\ spOut' = SpCall("Insert", l, cur, newspan, Ret(NULL))
    /\ UNCHANGED halted

\* assert(cur != _head) of Erase
EraseAssertNone(l, cur) == TRUE
EraseAssert(l, cur) == cur # _head[l]

\* void Erase(Span *cur) on list l.  assert(cur) holds for every node;
\* when assert(cur != _head) fails the process aborts before any write.
EraseCall(l, cur) ==
    /\ ~halted
    /\ IF EraseAssert(l, cur)
       THEN /\ span' = EraseLinks(span, cur)
            /\ live' = [live EXCEPT ![l] = @ \ {cur}]
            /\ spOut' = SpCall("Erase", l, cur, NULL, Ret(NULL))
            /\ UNCHANGED halted
       ELSE /\ halted' = TRUE
            /\ spOut' = SpCall("Erase", l, cur, NULL, Fatal)
            /\ UNCHANGED <<span, live>>

\* Erase of a span that is linked in l
Erase(l, cur) ==
    /\ cur \in live[l]
    /\ EraseCall(l, cur)

\* Erase of the list's own sentinel
EraseSentinel(l) == EraseCall(l, End(l))

\* Erase(cur) on l once more, right after Erase(cur) on l returned and before
\* any other call: cur is linked nowhere, its own _prev and _next are not
\* nullptr
EraseAgain(l, cur) ==
    /\ spOut.op = "Erase" /\ spOut.list = l /\ spOut.cur = cur
    /\ cur \in Unlinked
    /\ span[cur]._prev # NULL
    /\ span[cur]._next # NULL
    /\ EraseCall(l, cur)

(***************************************************************************)
(* SpanLists shared by threads                                             *)
(*                                                                         *)
(* Every thread follows the locking discipline: it locks the _mutex of the *)
(* list, calls Insert or Erase within the contract, and unlocks.  The      *)
(* reads and writes of Insert and Erase are separate steps.                *)
(***************************************************************************)
\* two threads
Threads == {1, 2}
\* the threads insert and erase the spans 1..MaxSharedSpans
MaxSharedSpans == 2
SharedSpans == 1..MaxSharedSpans

\* std::mutex _mutex is a member of SpanList: one mutex per list
MutexOfGlobal(l) == 1
MutexOf(l) == l

\* mutex: per mutex, the thread that holds it (0: unlocked)
\* pc:    per thread, where it stands
\* loc:   per thread, the list it works on, the arguments of its call and
\*        the locals prev and next of Insert and Erase
VARIABLES mutex, pc, loc
lkVars == <<mutex, pc, loc>>

NoLoc == [list |-> 1, cur |-> NULL, newspan |-> NULL, prev |-> NULL,
          next |-> NULL]

ThreadsInit ==
    /\ mutex = [l \in Lists |-> 0]
    /\ pc = [t \in Threads |-> "idle"]
    /\ loc = [t \in Threads |-> NoLoc]

\* spans some thread is inserting right now
InHand == {loc[t].newspan : t \in {u \in Threads : pc[u] \in {"i1", "i2", "i3", "i4"}}}

\* the thread turns to list l
Want(t, l) ==
    /\ pc[t] = "idle"
    /\ pc' = [pc EXCEPT ![t] = "wait"]
    /\ loc' = [loc EXCEPT ![t] = [NoLoc EXCEPT !.list = l]]
    /\ UNCHANGED <<mutex, span, live>>

\* _mutex.lock()
Lock(t) ==
    /\ pc[t] = "wait"
    /\ mutex[MutexOf(loc[t].list)] = 0
    /\ mutex' = [mutex EXCEPT ![MutexOf(loc[t].list)] = t]
    /\ pc' = [pc EXCEPT ![t] = "locked"]
    /\ UNCHANGED <<loc, span, live>>

\* Insert(cur, newspan) is entered: Span *prev = cur->_prev;
InsertEnter(t, cur, newspan) ==
    /\ pc[t] = "locked"
    /\ cur \in live[loc[t].list] \cup {End(loc[t].list)}
    /\ newspan \in (Unlinked \cap SharedSpans) \ InHand
    /\ loc' = [loc EXCEPT ![t].cur = cur, ![t].newspan = newspan,
                          ![t].prev = span[cur]._prev]
    /\ pc' = [pc EXCEPT ![t] = "i1"]
    /\ UNCHANGED <<mutex, span, live>>

\* prev->_next = newspan;
InsertStep1(t) ==
    /\ pc[t] = "i1"
    /\ span' = InsertW1(span, loc[t].prev, loc[t].newspan)
    /\ pc' = [pc EXCEPT ![t] = "i2"]
    /\ UNCHANGED <<mutex, loc, live>>

\* newspan->_prev = prev;
InsertStep2(t) ==
    /\ pc[t] = "i2"
    /\ span' = InsertW2(span, loc[t].prev, loc[t].newspan)
    /\ pc' = [pc EXCEPT ![t] = "i3"]
    /\ UNCHANGED <<mutex, loc, live>>

\* newspan->_next = cur;
InsertStep3(t) ==
    /\ pc[t] = "i3"
    /\ span' = InsertW3(span, loc[t].cur, loc[t].newspan)
    /\ pc' = [pc EXCEPT ![t] = "i4"]
    /\ UNCHANGED <<mutex, loc, live>>

\* cur->_prev = newspan; and Insert returns
InsertStep4(t) ==
    /\ pc[t] = "i4"
    /\ span' = InsertW4(span, loc[t].cur, loc[t].newspan)
    /\ live' = [live EXCEPT ![loc[t].list] = @ \cup {loc[t].newspan}]
    /\ pc' = [pc EXCEPT ![t] = "unlock"]
    /\ UNCHANGED <<mutex, loc>>

\* Erase(cur) is entered, both asserts hold:
\* Span *prev = cur->_prev; Span *next = cur->_next;
EraseEnter(t, cur) ==
    /\ pc[t] = "locked"
    /\ cur \in live[loc[t].list]
    /\ EraseAssert(loc[t].list, cur)
    /\ loc' = [loc EXCEPT ![t].cur = cur, ![t].prev = span[cur]._prev,
                          ![t].next = span[cur]._next]
    /\ pc' = [pc EXCEPT ![t] = "e1"]
    /\ UNCHANGED <<mutex, span, live>>

\* prev->_next = next;
EraseStep1(t) ==
    /\ pc[t] = "e1"
    /\ span' = EraseW1(span, loc[t].prev, loc[t].next)
    /\ pc' = [pc EXCEPT ![t] = "e2"]
    /\ UNCHANGED <<mutex, loc, live>>

\* next->_prev = prev; and Erase returns
EraseStep2(t) ==
    /\ pc[t] = "e2"
    /\ span' = EraseW2(span, loc[t].prev, loc[t].next)
    /\ live' = [live EXCEPT ![loc[t].list] = @ \ {loc[t].cur}]
    /\ pc' = [pc EXCEPT ![t] = "unlock"]
    /\ UNCHANGED <<mutex, loc>>

\* _mutex.unlock()
Unlock(t) ==
    /\ pc[t] = "unlock"
    /\ mutex' = [mutex EXCEPT ![MutexOf(loc[t].list)] = 0]
    /\ pc' = [pc EXCEPT ![t] = "idle"]
    /\ loc' = [loc EXCEPT ![t] = NoLoc]
    /\ UNCHANGED <<span, live>>

(***************************************************************************)
(* Specifications                                                          *)
(***************************************************************************)
vars == <<size, call, freeList, mem, stack, nPush, nPop, flOut, halted,
          span, live, spOut, mutex, pc, loc>>

\* SizeClass: two requests are classified
Init ==
    /\ size \in [Slots -> Sizes]
    /\ call = [r \in Slots |-> NoCall]
    /\ halted = FALSE
    /\ FreeListInit
    /\ SpanListInit
    /\ ThreadsInit

CallRoundUp(r) ==
    /\ call' = [call EXCEPT ![r] = Call("RoundUp", size[r], RoundUp(size[r]))]
    /\ UNCHANGED <<size, flVars, halted, spVars, lkVars>>

CallIndex(r) ==
    /\ call' = [call EXCEPT ![r] = Call("Index", size[r], Index(size[r]))]
    /\ UNCHANGED <<size, flVars, halted, spVars, lkVars>>

CallNumMoveSize(r) ==
    /\ call' = [call EXCEPT ![r] =
                    Call("NumMoveSize", size[r], NumMoveSize(size[r]))]
    /\ UNCHANGED <<size, flVars, halted, spVars, lkVars>>

Next ==
    \/ \E r \in Slots : CallRoundUp(r)
    \/ \E r \in Slots : CallIndex(r)
    \/ \E r \in Slots : CallNumMoveSize(r)

Spec == Init /\ [][Next]_vars

\* no SizeClass call is made
SizeClassIdle ==
    /\ size = [r \in Slots |-> 0]
    /\ call = [r \in Slots |-> NoCall]

\* all objects as constructed, no call made
IdleStart ==
    /\ SizeClassIdle
    /\ halted = FALSE
    /\ FreeListInit
    /\ SpanListInit
    /\ ThreadsInit

\* FreeList used by its owning thread within the contract: Pop only on a
\* list that is not empty
FreeListNext ==
    \/ \E obj \in Objs : Push(obj) /\ UNCHANGED <<scVars, spVars, lkVars>>
    \/ \E c \in Chains : PushRange(c) /\ UNCHANGED <<scVars, spVars, lkVars>>
    \/ Pop /\ UNCHANGED <<scVars, spVars, lkVars>>

FreeListSpec == IdleStart /\ [][FreeListNext]_vars

\* FreeList used without the check of Empty() before Pop
FreeListMisuseNext ==
    \/ FreeListNext
    \/ PopEmpty /\ UNCHANGED <<scVars, spVars, lkVars>>

FreeListMisuseSpec == IdleStart /\ [][FreeListMisuseNext]_vars

\* SpanLists used by one thread within the contract; Erase of the sentinel is
\* the one violation that the code asserts
SpanListNext ==
    \/ \E l \in Lists, cur \in Nodes, newspan \in Spans :
          Insert(l, cur, newspan) /\ UNCHANGED <<scVars, flVars, lkVars>>
    \/ \E l \in Lists, cur \in Spans :
          Erase(l, cur) /\ UNCHANGED <<scVars, flVars, lkVars>>
    \/ \E l \in Lists : EraseSentinel(l) /\ UNCHANGED <<scVars, flVars, lkVars>>

SpanListSpec == IdleStart /\ [][SpanListNext]_vars

\* SpanLists where a span may be erased twice in a row
SpanListMisuseNext ==
    \/ SpanListNext
    \/ \E l \in Lists, cur \in Spans :
          EraseAgain(l, cur) /\ UNCHANGED <<scVars, flVars, lkVars>>

SpanListMisuseSpec == IdleStart /\ [][SpanListMisuseNext]_vars

\* SpanLists shared by threads that follow the locking discipline
lkRest == <<scVars, flVars, halted, spOut>>

SpanLockNext ==
    \/ \E t \in Threads, l \in Lists : Want(t, l) /\ UNCHANGED lkRest
    \/ \E t \in Threads : Lock(t) /\ UNCHANGED lkRest
    \/ \E t \in Threads, cur \in Nodes, newspan \in Spans :
          InsertEnter(t, cur, newspan) /\ UNCHANGED lkRest
    \/ \E t \in Threads : InsertStep1(t) /\ UNCHANGED lkRest
    \/ \E t \in Threads : InsertStep2(t) /\ UNCHANGED lkRest
    \/ \E t \in Threads : InsertStep3(t) /\ UNCHANGED lkRest
    \/ \E t \in Threads : InsertStep4(t) /\ UNCHANGED lkRest
    \/ \E t \in Threads, cur \in Spans : EraseEnter(t, cur) /\ UNCHANGED lkRest
    \/ \E t \in Threads : EraseStep1(t) /\ UNCHANGED lkRest
    \/ \E t \in Threads : EraseStep2(t) /\ UNCHANGED lkRest
    \/ \E t \in Threads : Unlock(t) /\ UNCHANGED lkRest

SpanLockSpec == IdleStart /\ [][SpanLockNext]_vars

(***************************************************************************)
(* Vocabulary of the properties                                            *)
(***************************************************************************)
Supported == 1..MAX_BYTES

\* the call made for request r, if it was a call of fn
Called(r, fn) == call[r].fn = fn
Returned(r) == call[r].out.kind = "ret"

\* the documented tiers: number, first size below the tier, alignment and
\* number of buckets of all lower tiers
Tier(s) ==
    IF s <= 128 THEN 1
    ELSE IF s <= 1024 THEN 2
    ELSE IF s <= 8192 THEN 3
    ELSE IF s <= 65536 THEN 4
    ELSE 5
TierLow(s) == <<0, 128, 1024, 8192, 65536>>[Tier(s)]
TierAlign(s) == <<8, 16, 128, 1024, 8192>>[Tier(s)]
TierBase(s) == <<0, 16, 72, 128, 184>>[Tier(s)]

CeilDiv(a, b) == (a + b - 1) \div b
RefIndex(s) == TierBase(s) + CeilDiv(s - TierLow(s), TierAlign(s)) - 1

Min(a, b) == IF a < b THEN a ELSE b
Max(a, b) == IF a > b THEN a ELSE b

\* a size that RoundUp returns unchanged; all of them are multiples of 8
Aligned(s) == RoundUp(s) = Ret(s)
AlignedSizes == {s \in {8 * k : k \in 1..(MAX_BYTES \div 8)} : Aligned(s)}

(***************************************************************************)
(* Properties                                                              *)
(***************************************************************************)

\* C1: for every size in [1, 262144], Index(size) returns a value in
\* [0, 208), a valid subscript of an array of NFREELIST buckets.
C1_IndexInBucketRange ==
    \A r \in Slots :
        (Called(r, "Index") /\ call[r].arg \in Supported)
            => /\ Returned(r)
               /\ call[r].out.val \in 0..(NFREELIST - 1)

\* C2: two sizes in [1, 262144] with the same RoundUp result have the same
\* Index.
C2_SameRoundUpSameIndex ==
    \A r, q \in Slots :
        (/\ Called(r, "Index") /\ Called(q, "Index")
         /\ call[r].arg \in Supported /\ call[q].arg \in Supported
         /\ RoundUp(call[r].arg) = RoundUp(call[q].arg))
            => call[r].out = call[q].out

\* C3: for every size in [1, 262144], Index(size) is the reference value
\* (buckets of all lower tiers) + ceil((size - tier lower bound) / tier
\* alignment) - 1; in particular Index(7) = 0 and Index(129) is in [16, 72).
C3_IndexIsReference ==
    \A r \in Slots :
        (Called(r, "Index") /\ call[r].arg \in Supported)
            => /\ call[r].out = Ret(RefIndex(call[r].arg))
               /\ call[r].arg = 7 => call[r].out = Ret(0)
               /\ call[r].arg = 129 =>
                     /\ Returned(r)
                     /\ call[r].out.val \in 16..71

\* C4: for every size in [1, 262144], RoundUp(size) >= size, RoundUp(size) -
\* size is less than the alignment of the size's tier, and RoundUp(size) is a
\* multiple of that alignment.
C4_RoundUpBound ==
    \A r \in Slots :
        (Called(r, "RoundUp") /\ call[r].arg \in Supported)
            => /\ Returned(r)
               /\ call[r].out.val >= call[r].arg
               /\ call[r].out.val - call[r].arg < TierAlign(call[r].arg)
               /\ call[r].out.val % TierAlign(call[r].arg) = 0

\* a size of the 128-byte tier was rounded up to a larger size, and a size
\* that is already aligned was returned unchanged
C4_Witness ==
    /\ Called(1, "RoundUp") /\ call[1].arg = 8193 /\ call[1].out = Ret(9216)
    /\ Called(2, "RoundUp") /\ call[2].arg = 16 /\ call[2].out = Ret(16)

\* C5: Index is injective on aligned sizes (fixed points of RoundUp in
\* [1, 262144]), and the indices of all aligned sizes are exactly 0..207.
C5_IndexInjectiveDense ==
    /\ \A r, q \in Slots :
          (/\ Called(r, "Index") /\ Called(q, "Index")
           /\ call[r].arg \in Supported /\ call[q].arg \in Supported
           /\ Aligned(call[r].arg) /\ Aligned(call[q].arg)
           /\ call[r].arg # call[q].arg)
              => call[r].out # call[q].out
    /\ (\E r \in Slots : /\ Called(r, "Index")
                          /\ call[r].arg \in Supported
                          /\ Aligned(call[r].arg))
          => {Index(a).val : a \in AlignedSizes} = 0..(NFREELIST - 1)

\* C6: Index is monotonic over the whole supported range: s1 < s2 in
\* [1, 262144] implies Index(s1) <= Index(s2), also across tier limits.
C6_IndexMonotonic ==
    \A r, q \in Slots :
        (/\ Called(r, "Index") /\ Called(q, "Index")
         /\ call[r].arg \in Supported /\ call[q].arg \in Supported
         /\ call[r].arg < call[q].arg)
            => /\ Returned(r) /\ Returned(q)
               /\ call[r].out.val <= call[q].out.val

\* C7: for sizes s1 < s2 of the same alignment tier, Index(s1) <= Index(s2).
C7_IndexMonotonicInTier ==
    \A r, q \in Slots :
        (/\ Called(r, "Index") /\ Called(q, "Index")
         /\ call[r].arg \in Supported /\ call[q].arg \in Supported
         /\ Tier(call[r].arg) = Tier(call[q].arg)
         /\ call[r].arg < call[q].arg)
            => /\ Returned(r) /\ Returned(q)
               /\ call[r].out.val <= call[q].out.val

\* a tier limit and the size just below it, both of the same tier, have been
\* classified
C7_Witness ==
    /\ Called(1, "Index") /\ Called(2, "Index")
    /\ call[1].arg < call[2].arg
    /\ Tier(call[1].arg) = Tier(call[2].arg)
    /\ call[2].arg \in TierLimits
    /\ call[1].arg = call[2].arg - 1

\* C8: for every size in [1, 262144], NumMoveSize(size) is 262144 / size
\* clamped to [2, 512]; so it lies in [2, 512], NumMoveSize(512) = 512, and
\* NumMoveSize is non-increasing in size.
C8_NumMoveSize ==
    /\ \A r \in Slots :
          (Called(r, "NumMoveSize") /\ call[r].arg \in Supported)
              => /\ call[r].out = Ret(Max(2, Min(512, 262144 \div call[r].arg)))
                 /\ call[r].out.val >= 2
                 /\ call[r].out.val <= 512
                 /\ call[r].arg = 512 => call[r].out.val = 512
    /\ \A r, q \in Slots :
          (/\ Called(r, "NumMoveSize") /\ Called(q, "NumMoveSize")
           /\ call[r].arg \in Supported /\ call[q].arg \in Supported
           /\ call[r].arg < call[q].arg)
              => call[r].out.val >= call[q].out.val

\* the batch of size 512 hits the upper clamp, that of a size above half of
\* MAX_BYTES the lower one
C8_Witness ==
    /\ Called(1, "NumMoveSize") /\ call[1].arg = 512 /\ call[1].out = Ret(512)
    /\ Called(2, "NumMoveSize") /\ call[2].arg > 131072
    /\ call[2].arg \in Supported /\ call[2].out = Ret(2)

\* C9 as stated: a request of size 260000 passed to RoundUp or Index ends in
\* the assert(false) branch.
C9_Size260000IsFatal ==
    \A r \in Slots :
        ((Called(r, "RoundUp") \/ Called(r, "Index")) /\ call[r].arg = 260000)
            => call[r].out = Fatal

\* C9 amended: 260000 is below MAX_BYTES; RoundUp(260000) returns 262144 and
\* Index(260000) returns, neither reaches the assert(false) branch.
C9_Size260000IsServed ==
    \A r \in Slots :
        /\ (Called(r, "RoundUp") /\ call[r].arg = 260000)
              => call[r].out = Ret(MAX_BYTES)
        /\ (Called(r, "Index") /\ call[r].arg = 260000)
              => Returned(r)

C9_Witness ==
    /\ Called(1, "RoundUp") /\ call[1].arg = 260000
    /\ Called(2, "Index") /\ call[2].arg = 260000

\* C10: for every size above MAX_BYTES, RoundUp and Index end in the fatal
\* assertion and return nothing; for every size in [1, 262144] they return.
C10_FatalIffAboveCeiling ==
    \A r \in Slots :
        (Called(r, "RoundUp") \/ Called(r, "Index"))
            => /\ call[r].arg > MAX_BYTES => call[r].out = Fatal
               /\ call[r].arg \in Supported => Returned(r)

\* RoundUp was called above the ceiling and Index exactly at it
C10_Witness ==
    /\ Called(1, "RoundUp") /\ call[1].arg = MAX_BYTES + 1
    /\ call[1].out = Fatal
    /\ Called(2, "Index") /\ call[2].arg = MAX_BYTES /\ Returned(2)

\* C11: FreeList is LIFO: the list holds the pushed and not yet popped objects,
\* most recently pushed first, every Pop returns the most recently pushed
\* one of them, and Empty() is true exactly when as many objects were popped as
\* were pushed.
C11_FreeListLifo ==
    /\ ListOf = stack
    /\ flOut.op = "Pop" => flOut.out = Ret(flOut.top)
    /\ Empty <=> nPush = nPop

\* three objects went in and came out again
C11_Witness ==
    /\ nPush = 3 /\ nPop = 3
    /\ flOut.op = "Pop" /\ flOut.out.val \in Objs
    /\ Empty

\* C12: PushRange(start, end) of a linked chain c1..cN puts c1..cN, in chain
\* order, in front of the previous contents, which keep their order; every
\* Pop returns the first object and leaves the rest.  So the N Pops after a
\* PushRange return c1..cN, and Empty() holds then iff the list was empty.
C12_PushRangeThenPops ==
    [][/\ (flOut'.op = "PushRange" /\ nPush' # nPush)
            => ListIn(freeList', mem') = flOut'.arg \o ListOf
       /\ (flOut'.op = "Pop" /\ nPop' # nPop)
            => /\ ListOf # <<>>
               /\ flOut'.out = Ret(Head(ListOf))
               /\ ListIn(freeList', mem') = Tail(ListOf)
               /\ (freeList'._head = NULL) <=> (Len(ListOf) = 1)]_vars

\* a chain of two objects or more was pushed onto a list that was not empty
C12_Witness ==
    /\ flOut.op = "PushRange"
    /\ Len(flOut.arg) >= 2
    /\ Len(ListOf) > Len(flOut.arg)

Reverse(seq) == [i \in 1..Len(seq) |-> seq[Len(seq) + 1 - i]]

\* C13: after any sequence of Insert and Erase within the contract, following
\* _next from Begin() meets every live span once and reaches End() after as
\* many steps as there are live spans, and following _prev from End() meets
\* the same spans in the reverse order.
C13_SpanListTraversal ==
    \A l \in Lists :
        /\ Len(Forward(l)) = Cardinality(live[l])
        /\ Range(Forward(l)) = live[l]
        /\ Backward(l) = Reverse(Forward(l))

\* a list holds two spans after a span has been erased
C13_Witness ==
    /\ spOut.op = "Erase" /\ spOut.out = Ret(NULL)
    /\ \E l \in Lists : Cardinality(live[l]) = 2

\* C14: Empty() is true iff the list holds no live span, iff the sentinel's
\* _next and _prev both point to the sentinel.
C14_EmptyIffNoLiveSpan ==
    \A l \in Lists :
        /\ SpanListEmpty(l) <=> live[l] = {}
        /\ live[l] = {} <=> /\ span[_head[l]]._next = _head[l]
                            /\ span[_head[l]]._prev = _head[l]

\* a list became empty by an Erase while the other list holds a span
C14_Witness ==
    /\ spOut.op = "Erase" /\ spOut.out = Ret(NULL)
    /\ SpanListEmpty(spOut.list)
    /\ \E l \in Lists : ~SpanListEmpty(l)

\* seq with x put before element cur, or at the end when cur is not in seq
InsertBefore(seq, cur, x) ==
    IF \E i \in 1..Len(seq) : seq[i] = cur
    THEN LET i == CHOOSE j \in 1..Len(seq) : seq[j] = cur
         IN  SubSeq(seq, 1, i - 1) \o <<x>> \o SubSeq(seq, i, Len(seq))
    ELSE Append(seq, x)
Without(seq, x) == SelectSeq(seq, LAMBDA y : y # x)

\* C16: Insert(cur, newspan) places newspan immediately before cur in the
\* forward traversal (first for cur = Begin(), last for cur = End()) and keeps
\* the order of the spans linked before; the other lists are untouched.
C16_InsertBeforeCur ==
    [][(spOut' # spOut /\ spOut'.op = "Insert")
          => /\ ForwardIn(span', spOut'.list)
                  = InsertBefore(Forward(spOut'.list), spOut'.cur,
                                 spOut'.newspan)
             /\ spOut'.cur = Begin(spOut'.list)
                  => Head(ForwardIn(span', spOut'.list)) = spOut'.newspan
             /\ spOut'.cur = End(spOut'.list)
                  => ForwardIn(span', spOut'.list)
                        [Len(ForwardIn(span', spOut'.list))] = spOut'.newspan
             /\ \A k \in Lists \ {spOut'.list} :
                   ForwardIn(span', k) = Forward(k)]_vars

\* a span was inserted between two spans of a list
C16_Witness ==
    /\ spOut.op = "Insert"
    /\ Len(Forward(spOut.list)) = 3
    /\ Forward(spOut.list)[2] = spOut.newspan

\* the lists whose forward traversal meets span s
ListsOf(s) == {l \in Lists : s \in Range(Forward(l))}

\* C17: Erase(cur) removes exactly cur from its list's traversal and keeps the
\* order of the others; cur can then be inserted into another list and is
\* reached from that list's sentinel only; every span is linked into at most
\* one list.
C17_EraseThenMove ==
    /\ [](\A s \in Spans : Cardinality(ListsOf(s)) <= 1)
    /\ [][/\ (spOut' # spOut /\ spOut'.op = "Erase" /\ spOut'.out = Ret(NULL))
               => /\ ForwardIn(span', spOut'.list)
                       = Without(Forward(spOut'.list), spOut'.cur)
                  /\ Len(ForwardIn(span', spOut'.list))
                       = Len(Forward(spOut'.list)) - 1
                  /\ \A k \in Lists \ {spOut'.list} :
                        ForwardIn(span', k) = Forward(k)
          /\ (/\ spOut' # spOut /\ spOut'.op = "Insert"
              /\ span[spOut'.newspan]._prev # NULL)
               => \A k \in Lists :
                     spOut'.newspan \in Range(ForwardIn(span', k))
                        <=> k = spOut'.list]_vars

\* a span erased from one list is now linked into the other list, which
\* holds one more span
C17_Witness ==
    /\ spOut.op = "Insert"
    /\ spOut.moved
    /\ ListsOf(spOut.newspan) = {spOut.list}
    /\ Len(Forward(spOut.list)) >= 2

\* C18: Pop on an empty FreeList ends in a fatal assertion: the process is
\* aborted, no object is returned, no further Push/Pop follows.
C18_PopEmptyIsFatal ==
    [][(Empty /\ nPop' # nPop)
          => (flOut'.out.kind # "ret" /\ halted')]_vars

\* C19: Erase of the list's own sentinel ends in a fatal assertion before any
\* link is written: the sentinel stays linked and the contents are unchanged.
C19_EraseSentinelIsFatal ==
    [][(/\ ~halted /\ spOut' # spOut
        /\ spOut'.op = "Erase" /\ spOut'.cur = End(spOut'.list))
          => /\ spOut'.out = Fatal
             /\ halted'
             /\ span' = span
             /\ \A l \in Lists :
                   /\ ForwardIn(span', l) = Forward(l)
                   /\ Range(ForwardIn(span', l)) = live[l]]_vars

\* the sentinel of a list that holds spans was passed to Erase
C19_Witness ==
    /\ halted
    /\ spOut.op = "Erase" /\ spOut.cur = End(spOut.list) /\ spOut.out = Fatal
    /\ live[spOut.list] # {}

\* C20: Erase(cur) writes only the links of cur's two neighbours and leaves
\* cur's own _prev and _next; a second Erase(cur) right after the first raises
\* no assertion and changes nothing.
C20_EraseTwice ==
    [][/\ (spOut' # spOut /\ spOut'.op = "Erase" /\ spOut'.out = Ret(NULL))
            => /\ span'[spOut'.cur] = span[spOut'.cur]
               /\ \A n \in Nodes \ {span[spOut'.cur]._prev,
                                     span[spOut'.cur]._next} :
                     span'[n] = span[n]
       /\ (/\ spOut' # spOut /\ spOut'.op = "Erase" /\ spOut'.rep = 2
           /\ spOut.out = Ret(NULL))
            => /\ spOut'.out = Ret(NULL)
               /\ ~halted'
               /\ span' = span
               /\ live' = live]_vars

\* a span has been erased twice in a row
C20_Witness ==
    /\ spOut.op = "Erase" /\ spOut.rep = 2 /\ spOut.out = Ret(NULL)
    /\ ~halted
    /\ \E l \in Lists : live[l] # {}

\* the thread is inside Insert or Erase
InCall(t) == pc[t] \in {"i1", "i2", "i3", "i4", "e1", "e2"}
\* the thread holds the lock of its list or is inside a call on it
WorksOn(t, l) == pc[t] \in {"locked", "i1", "i2", "i3", "i4", "e1", "e2", "unlock"}
                    /\ loc[t].list = l

\* C15: with the locking discipline no two threads are inside Insert/Erase of
\* the same list at once; whenever a list's lock is free the list is a
\* well-formed circular doubly linked list of exactly its live spans; and a
\* thread waits for a list's lock only while another thread works on that
\* same list.
C15_BucketLock ==
    /\ \A t, u \in Threads :
          (t # u /\ InCall(t) /\ InCall(u)) => loc[t].list # loc[u].list
    /\ \A l \in Lists :
          mutex[l] = 0
             => /\ Len(Forward(l)) = Cardinality(live[l])
                /\ Range(Forward(l)) = live[l]
                /\ Backward(l) = Reverse(Forward(l))
    /\ \A t \in Threads :
          (pc[t] = "wait" /\ ~ENABLED Lock(t))
             => \E u \in Threads \ {t} : WorksOn(u, loc[t].list)

\* one thread is in the middle of an Insert into a list while the other is in
\* the middle of an Erase on the other list, and a span was erased before
C15_Witness ==
    /\ \E t, u \in Threads :
          /\ pc[t] = "i3" /\ pc[u] = "e2"
          /\ loc[t].list # loc[u].list
    /\ \E l \in Lists : mutex[l] # 0 /\ Forward(l) # Reverse(Backward(l))

====
